---- MODULE Spec2Model ----
(***************************************************************************)
(* Inventory allocation and order lifecycle engine of parts-plus           *)
(* (src/logic.py), with the callers in src/main.py.                        *)
(*                                                                         *)
(* The persistent store is the four tables parts_stock, orders,            *)
(* order_items and cart.  Every handler of logic.py runs its statements    *)
(* inside one `with engine.begin() as conn` block: the statements are the  *)
(* steps of the model, their writes are staged in the transaction (tx)     *)
(* and reach the tables at Commit; an exception discards them (Rollback).  *)
(* The store is PostgreSQL (ILIKE, RETURNING) at its default isolation     *)
(* level READ COMMITTED: a SELECT reads the committed rows plus the        *)
(* transaction's own writes, an UPDATE waits for the row locks of other    *)
(* transactions and then applies its relative change to the committed row. *)
(*                                                                         *)
(* Quantities are integers; prices are integers too (whole currency units) *)
(* since no arithmetic of the engine depends on the fraction.              *)
(***************************************************************************)
EXTENDS Integers, Sequences, FiniteSets, TLC

(* ------------------------------ bounds --------------------------------- *)
MaxAvail == 4          \* SpecAlloc: available quantities 0..MaxAvail
MaxReq == 4            \* SpecAlloc: requested quantities 0..MaxReq
MaxOrders == 1         \* create_order calls in a run (order ids 1..MaxOrders)
MaxStatusCalls == 3    \* update_order_status calls in a run
MaxUploads == 2        \* upload_parts_stock calls in a run
LowStock == 2          \* Spec: a small uploaded quantity
SmallReq == 3          \* Spec: a small requested quantity
ScenarioStock == 10    \* Spec: uploaded quantity of the scenario of spec section 8
ScenarioReq == 15      \* Spec: requested quantity of that scenario
MaxCartRows == 2       \* SpecTx: cart rows inserted in a run
MaxCartQty == 2        \* SpecTx: quantity of a cart row
MaxConcOrders == 2     \* SpecConc: create_order calls in a run
MaxBulkRows == 2       \* SpecBulk: rows of a bulk enquiry
MaxRejects == 2        \* SpecRej: update_order_status calls in a run
MaxWipeOrders == 2     \* SpecWipe: create_order calls in a run
MaxWipeStatusCalls == 1     \* SpecWipe: update_order_status calls in a run
MaxAbortOrders == 1         \* SpecAbort: create_order calls started
MaxAbortStatusCalls == 2    \* SpecAbort: update_order_status calls started
MaxCatalogUploads == 2      \* SpecCatalog: upload_parts_stock calls started
MaxLiveOrders == 2          \* SpecLive: create_order calls started
MaxLiveStatusCalls == 1     \* SpecLive: update_order_status calls started
MaxCartOrders == 2          \* SpecCart: create_order calls started
MaxLedgerOrders == 2        \* SpecLedger: create_order calls started
MaxLedgerStatusCalls == 2   \* SpecLedger: update_order_status calls started
MaxPoolUploads == 2         \* SpecPools: upload_parts_stock calls
MaxPoolOrders == 1          \* SpecPools: create_order calls started
MaxPoolStatusCalls == 1     \* SpecPools: update_order_status calls started

(* ------------------------------ helpers -------------------------------- *)
Min(a, b) == IF a <= b THEN a ELSE b

Range(s) == {s[k] : k \in 1..Len(s)}

\* SQL NULL / pandas NaN for a nullable column: <<>> is NULL, <<v>> is the value v.
NULL == <<>>
IsNull(v) == v = <<>>
Val(v) == v[1]

\* str.strip() of a part number (a sequence of characters).
RECURSIVE StripLeft(_)
StripLeft(pn) == IF pn # <<>> /\ Head(pn) = " " THEN StripLeft(Tail(pn)) ELSE pn

RECURSIVE StripRight(_)
StripRight(pn) ==
    IF pn # <<>> /\ pn[Len(pn)] = " " THEN StripRight(SubSeq(pn, 1, Len(pn) - 1)) ELSE pn

Strip(pn) == StripRight(StripLeft(pn))

(* ---------------------- AllocationEngine (pure) ------------------------ *)
\* A stock lookup is [found, free_stock, description]: found is FALSE when no row
\* matched; description is the row's column, NULL when the cell is empty.
\* create_order: current_stock = row.free_stock if row else 0;
\*               allocated_qty = min(requested_qty, current_stock)
CreateOrderCurrentStock(lookup) == IF lookup.found THEN lookup.free_stock ELSE 0

CreateOrderAllocation(requested_qty, current_stock) ==
    Min(requested_qty, current_stock)

\* process_bulk_enquiry, the merged row of a stock lookup (left join):
\* description is NaN when no row matched or the row has none;
\* no_record = description.isna(); available_qty = free_stock.fillna(0)
BulkMergedRow(qty, lookup) ==
    [qty |-> qty,
     description |-> IF lookup.found THEN lookup.description ELSE NULL,
     no_record |-> IF lookup.found THEN IsNull(lookup.description) ELSE TRUE,
     available_qty |-> IF lookup.found THEN lookup.free_stock ELSE 0]

CalculateAllocationNoCap(row) ==
    IF IsNull(row.description) THEN [allocated_qty |-> 0, status |-> "Invalid Part"]
    ELSE IF row.available_qty > 0
         THEN [allocated_qty |-> row.qty, status |-> "Fully Allocated"]
         ELSE [allocated_qty |-> 0, status |-> "Out of Stock"]

\* process_bulk_enquiry.calculate_allocation(row)
CalculateAllocation(row) ==
    IF IsNull(row.description) THEN [allocated_qty |-> 0, status |-> "Invalid Part"]
    ELSE IF row.available_qty >= row.qty
         THEN [allocated_qty |-> row.qty, status |-> "Fully Allocated"]
         ELSE IF row.available_qty > 0
              THEN [allocated_qty |-> row.available_qty, status |-> "Partial Fulfillment"]
              ELSE [allocated_qty |-> 0, status |-> "Out of Stock"]

\* get_user_cart, the loop body: available_qty is NULL when the LEFT JOIN matched
\* no row; avail = d['available_qty'] or 0; no_record is always False.
CartAllocation(qty, available_qty) ==
    LET avail == IF IsNull(available_qty) THEN 0 ELSE Val(available_qty)
    IN  IF avail >= qty
        THEN [allocated_qty |-> qty, status |-> "Fully Allocated", no_record |-> FALSE]
        ELSE IF avail > 0
             THEN [allocated_qty |-> avail, status |-> "Partial Fulfillment", no_record |-> FALSE]
             ELSE [allocated_qty |-> 0, status |-> "Out of Stock", no_record |-> FALSE]

\* The LEFT JOIN column p.free_stock of get_user_cart for a stock lookup.
CartJoinAvailable(lookup) == IF lookup.found THEN <<lookup.free_stock>> ELSE NULL

(* ------------------------------ the store ------------------------------ *)
\* Part numbers are character sequences, so that the sanitization of the bulk
\* path (str.replace("-", "")) is computed and not assumed.
PartA == <<"A">>
PartB == <<"B">>
PartAHyphen == <<"A", "-">>
Parts == {PartA, PartB}

\* The two stock pools the callers use (main.py: "parts_stock", "HBD_stock").
Pools == {"parts_stock", "HBD_stock"}
Users == {"u1", "u2"}
Workers == {"w1", "w2"}     \* concurrent request handlers

VARIABLES
    parts_stock,    \* table parts_stock: sequence of rows, in insertion order
    nextStockId,    \* serial of parts_stock.id
    orders,         \* table orders: set of header rows
    nextOrderId,    \* serial of orders.order_id (not rolled back)
    order_items,    \* table order_items: sequence of rows, in insertion order
    cart,           \* table cart: set of rows
    nextCartId,     \* serial of cart.id
    tx,             \* per worker: position and staged writes of its transaction
    last,           \* history: the last call that returned, its result, the store before it
    prev,           \* history: the create_order that returned just before `last`, if any
    restore_count,  \* history: per order item, committed restorations of its qty
    nStatusCalls,   \* number of update_order_status calls started
    nUploads,       \* number of upload_parts_stock calls
    bulk_out,       \* SpecBulk: the call and the result of the last process_bulk_enquiry
    alloc_in,       \* SpecAlloc: [requested_qty, lookup] handed to an allocator
    alloc_out       \* SpecAlloc: [path, allocated_qty, status] it returned

dbVars == <<parts_stock, nextStockId, orders, nextOrderId, order_items, cart, nextCartId>>
histVars == <<last, prev, restore_count, nStatusCalls, nUploads>>
allocVars == <<alloc_in, alloc_out>>
vars == <<dbVars, tx, histVars, bulk_out, allocVars>>

\* A transaction that is not running: no position, no staged write.
IdleTx ==
    [pc |-> "idle", op |-> "none", user_id |-> "", stock_type |-> "", items |-> <<>>,
     i |-> 0, order_id |-> 0, current_stock |-> 0, allocated_qty |-> 0,
     total_alloc_price |-> 0, status |-> "", ritems |-> <<>>, rstype |-> "",
     ri |-> 0, after |-> "",
     w_stock |-> <<>>,        \* parts_stock.id -> staged change of free_stock (row locked)
     w_header |-> NULL,       \* <<row>>: the orders row inserted
     w_items |-> <<>>,        \* the order_items rows inserted
     w_cart_del |-> {},       \* cart ids deleted
     w_status |-> NULL,       \* <<status>>: staged UPDATE of orders.order_status (row locked)
     w_items_del |-> FALSE,   \* staged DELETE of the order's order_items
     w_order_del |-> FALSE,   \* staged DELETE of the orders row (row locked)
     w_deact |-> FALSE,       \* staged UPDATE parts_stock SET is_active = FALSE of the pool
     w_rows |-> <<>>,         \* the parts_stock rows inserted
     w_stock_del |-> FALSE,   \* staged DELETE of the pool's parts_stock rows
     selected |-> {},         \* show_cart_ui: ids of the cart rows the user selected
     restored |-> <<>>]       \* history: ids of the items whose qty this call credited

NoCall == [op |-> "none", worker |-> "", ok |-> TRUE, raised |-> FALSE, msg |-> "",
           order_id |-> 0, selected |-> {},
           status |-> "", stock_type |-> "", user_id |-> "", items |-> <<>>,
           step |-> "", line |-> 0, n_items |-> 0, deducted |-> FALSE,
           before |-> [parts_stock |-> <<>>, orders |-> {}, order_items |-> <<>>, cart |-> {}]]
\* What is kept of the call before the last one, if it was a successful
\* create_order: the order it created and parts_stock before it.
NoPrev == [created |-> 0, parts_stock |-> <<>>]
PrevOf(call) ==
    IF call.op = "create_order" /\ call.ok
    THEN [created |-> call.order_id, parts_stock |-> call.before.parts_stock]
    ELSE NoPrev

NoOutput == [path |-> "none", allocated_qty |-> 0, status |-> ""]

\* The store after construction: empty tables, serials at 1.
InitStore ==
    /\ parts_stock = <<>>
    /\ nextStockId = 1
    /\ orders = {}
    /\ nextOrderId = 1
    /\ order_items = <<>>
    /\ cart = {}
    /\ nextCartId = 1
    /\ tx = [w \in Workers |-> IdleTx]
    /\ last = NoCall
    /\ prev = NoPrev
    /\ restore_count = <<>>
    /\ nStatusCalls = 0
    /\ nUploads = 0
    /\ bulk_out = <<>>

Store == [parts_stock |-> parts_stock, orders |-> orders,
          order_items |-> order_items, cart |-> cart]

AllIdle == \A w \in Workers : tx[w].pc = "idle"

\* Row locks: a transaction holds the parts_stock rows it has updated, and the
\* orders row it has updated or deleted, until it commits or rolls back.
StockLockedByOther(w, ids) ==
    \E o \in Workers \ {w} : (DOMAIN tx[o].w_stock) \cap ids # {}

OrderLockedByOther(w, oid) ==
    \E o \in Workers \ {w} :
        /\ tx[o].order_id = oid
        /\ (~IsNull(tx[o].w_status) \/ tx[o].w_order_del)

\* A WHERE clause that forgets the pool: the rows of the part in every pool.
MatchingRowsAnyPool(pn, stype) ==
    {k \in 1..Len(parts_stock) : parts_stock[k].part_number = pn}

\* WHERE part_number = :pn AND stock_type = :stype (no is_active filter): the
\* positions of the matching rows of parts_stock.
MatchingRows(pn, stype) ==
    {k \in 1..Len(parts_stock) :
        parts_stock[k].part_number = pn /\ parts_stock[k].stock_type = stype}

MatchingIds(pn, stype) == {parts_stock[k].id : k \in MatchingRows(pn, stype)}

\* free_stock of row k as transaction w reads it: committed value plus own change.
FreeStockSeenBy(w, k) ==
    LET id == parts_stock[k].id
    IN  parts_stock[k].free_stock
          + (IF id \in DOMAIN tx[w].w_stock THEN tx[w].w_stock[id] ELSE 0)

\* UPDATE parts_stock SET free_stock = free_stock + d WHERE part_number, stock_type:
\* the staged changes of w after it.
StagedStockUpdate(w, pn, stype, d) ==
    LET ids == MatchingIds(pn, stype)
        old == tx[w].w_stock
    IN  [id \in (DOMAIN old) \cup ids |->
            (IF id \in DOMAIN old THEN old[id] ELSE 0) + (IF id \in ids THEN d ELSE 0)]

(* ----------------------- commit and rollback --------------------------- *)
\* `with engine.begin() as conn`: leaving the block commits the staged writes.
StoreAfterCommit(w) ==
    LET t == tx[w]
        InPool(r) == r.stock_type = t.stock_type
        left == IF t.w_stock_del
                THEN SelectSeq(parts_stock, LAMBDA r : ~InPool(r)) ELSE parts_stock
        credited == [k \in 1..Len(left) |->
                    IF left[k].id \in DOMAIN t.w_stock
                    THEN [left[k] EXCEPT !.free_stock = @ + t.w_stock[left[k].id]]
                    ELSE left[k]]
        stock == [k \in 1..Len(credited) |->
                    IF t.w_deact /\ InPool(credited[k]) /\ credited[k].is_active
                    THEN [credited[k] EXCEPT !.is_active = FALSE]
                    ELSE credited[k]] \o t.w_rows
        kept == IF t.w_order_del THEN {o \in orders : o.order_id # t.order_id} ELSE orders
        upd == IF IsNull(t.w_status) THEN kept
               ELSE {IF o.order_id = t.order_id
                     THEN [o EXCEPT !.order_status = Val(t.w_status)] ELSE o : o \in kept}
        hdr == IF IsNull(t.w_header) THEN {} ELSE {Val(t.w_header)}
        its == IF t.w_items_del
               THEN SelectSeq(order_items, LAMBDA it : it.order_id # t.order_id)
               ELSE order_items
    IN  [parts_stock |-> stock, orders |-> upd \cup hdr,
         order_items |-> its \o t.w_items,
         \* show_cart_ui, after create_order has returned True: remove_from_cart_db
         \* of every selected row
         cart |-> {c \in cart : c.id \notin t.w_cart_del \cup t.selected}]

\* An exception leaves the block by rollback: no staged write reaches the tables.
StoreAfterRollbackKeepsWrites(w) == StoreAfterCommit(w)

\* A rollback that loses the order writes but keeps the stock writes.
StoreAfterRollbackKeepsStock(w) ==
    [Store EXCEPT !.parts_stock = StoreAfterCommit(w).parts_stock]

\* A rollback that keeps the deactivation of the pool's rows (the UPDATE
\* committed on its own).
StoreAfterRollbackKeepsDeactivation(w) ==
    [Store EXCEPT !.parts_stock =
        [k \in 1..Len(parts_stock) |->
            IF /\ tx[w].w_deact
               /\ parts_stock[k].stock_type = tx[w].stock_type
            THEN [parts_stock[k] EXCEPT !.is_active = FALSE]
            ELSE parts_stock[k]]]

StoreAfterRollback(w) == Store

\* The handlers written without try/except: an exception of theirs reaches the
\* caller as an exception, not as a returned (False, message).
Uncaught == {"upload_parts_stock", "reset_stock"}

\* The call of worker w returns: the tables become `s`, the call is recorded.
Return(w, ok, msg, s) ==
    LET t == tx[w]
    IN  /\ parts_stock' = s.parts_stock
        /\ orders' = s.orders
        /\ order_items' = s.order_items
        /\ cart' = s.cart
        /\ last' = [op |-> t.op, worker |-> w, ok |-> ok,
                    raised |-> ~ok /\ t.op \in Uncaught, msg |-> msg,
                    selected |-> t.selected,
                    order_id |-> t.order_id, status |-> t.status,
                    stock_type |-> t.stock_type, user_id |-> t.user_id,
                    items |-> t.items, step |-> t.pc, line |-> t.i,
                    n_items |-> Len(t.w_items), deducted |-> t.w_stock # <<>>,
                    before |-> Store]
        /\ prev' = PrevOf(last)
        /\ restore_count' =
              IF ok
              THEN [id \in (DOMAIN restore_count) \cup Range(t.restored) |->
                       (IF id \in DOMAIN restore_count THEN restore_count[id] ELSE 0)
                       + Cardinality({k \in 1..Len(t.restored) : t.restored[k] = id})]
              ELSE restore_count
        /\ tx' = [tx EXCEPT ![w] = IdleTx]

\* return True, order_id / "Updated" / "Deleted"; upload_parts_stock and
\* reset_stock end without a return statement.
Commit(w) ==
    /\ tx[w].pc = "commit"
    /\ Return(w, TRUE,
              IF tx[w].op = "update_order_status" THEN "Updated"
              ELSE IF tx[w].op = "delete_order" THEN "Deleted"
              ELSE IF tx[w].op \in Uncaught THEN "" ELSE "order_id",
              StoreAfterCommit(w))
    /\ UNCHANGED <<nextStockId, nextOrderId, nextCartId, nStatusCalls, nUploads,
                   bulk_out, allocVars>>

\* except Exception as e: return False, str(e) -- any statement of a running
\* transaction may raise (storage unavailable); the transaction is rolled back,
\* and a handler without try/except lets the exception through (last.raised).
Fail(w) ==
    /\ tx[w].pc # "idle"
    /\ Return(w, FALSE, "error", StoreAfterRollback(w))
    /\ UNCHANGED <<nextStockId, nextOrderId, nextCartId, nStatusCalls, nUploads,
                   bulk_out, allocVars>>

\* The workers whose row locks the statement worker w is about to run waits for.
BlockedOn(w) ==
    LET t == tx[w]
        StockHolders(ids) == {o \in Workers \ {w} : (DOMAIN tx[o].w_stock) \cap ids # {}}
        OrderHolders == {o \in Workers \ {w} :
                            /\ tx[o].order_id = t.order_id
                            /\ (~IsNull(tx[o].w_status) \/ tx[o].w_order_del)}
    IN  IF t.pc = "co_update"
        THEN StockHolders(MatchingIds(t.items[t.i].part_number, t.stock_type))
        ELSE IF t.pc = "rs_loop" /\ t.ritems[t.ri].qty > 0
        THEN StockHolders(MatchingIds(t.ritems[t.ri].part_number, t.rstype))
        ELSE IF t.pc \in {"us_update", "do_header"} THEN OrderHolders
        ELSE {}

\* w and another worker each wait for a row lock the other holds.
Deadlocked(w) == \E o \in BlockedOn(w) : w \in BlockedOn(o)

\* A handler that runs the failed statement again instead of returning.
AbortOnErrorRetried(w, msg) == UNCHANGED vars

\* The error a statement raises reaches `except Exception as e`: the block is
\* left by rollback (the locks are released) and the handler returns (False, msg).
AbortOnError(w, msg) ==
    /\ tx[w].pc # "idle"
    /\ Return(w, FALSE, msg, StoreAfterRollback(w))
    /\ UNCHANGED <<nextStockId, nextOrderId, nextCartId, nStatusCalls, nUploads,
                   bulk_out, allocVars>>

\* The storage ends a lock cycle by failing the waiting statement of one of the
\* transactions in it (deadlock detection of the database server).
DeadlockAbort(w) == Deadlocked(w) /\ AbortOnError(w, "deadlock detected")

Step(w, t) ==
    /\ tx' = [tx EXCEPT ![w] = t]
    /\ UNCHANGED <<dbVars, histVars, bulk_out, allocVars>>

(* ------------------------- catalog (StockLedger) ----------------------- *)
\* upload_parts_stock(df_parts, stock_type): one transaction, two statements
\* (deactivate the pool's active rows, append the new rows as active).
\* records: sequence of [part_number, description, free_stock, price]; an empty
\* description cell of the file is NULL in the frame and in the table.
UploadPartsStock(records, stype) ==
    /\ AllIdle
    /\ LET deact == [k \in 1..Len(parts_stock) |->
                        IF parts_stock[k].stock_type = stype /\ parts_stock[k].is_active
                        THEN [parts_stock[k] EXCEPT !.is_active = FALSE]
                        ELSE parts_stock[k]]
           new == [k \in 1..Len(records) |->
                        [id |-> nextStockId + k - 1,
                         part_number |-> Strip(records[k].part_number),
                         description |-> records[k].description,
                         stock_type |-> stype,
                         free_stock |-> records[k].free_stock,
                         price |-> records[k].price,
                         is_active |-> TRUE]]
       IN  /\ parts_stock' = deact \o new
           /\ nextStockId' = nextStockId + Len(records)
    /\ nUploads' = nUploads + 1
    /\ last' = [NoCall EXCEPT !.op = "upload_parts_stock", !.stock_type = stype,
                              !.before = Store]
    /\ prev' = PrevOf(last)
    /\ UNCHANGED <<orders, nextOrderId, order_items, cart, nextCartId, tx,
                   restore_count, nStatusCalls, bulk_out, allocVars>>

\* reset_stock(stock_type): DELETE FROM parts_stock WHERE stock_type = :st
ResetStock(stype) ==
    /\ AllIdle
    /\ \E k \in 1..Len(parts_stock) : parts_stock[k].stock_type = stype
    /\ parts_stock' = SelectSeq(parts_stock, LAMBDA r : r.stock_type # stype)
    /\ last' = [NoCall EXCEPT !.op = "reset_stock", !.stock_type = stype,
                              !.before = Store]
    /\ prev' = PrevOf(last)
    /\ UNCHANGED <<nextStockId, orders, nextOrderId, order_items, cart, nextCartId, tx,
                   restore_count, nStatusCalls, nUploads, bulk_out, allocVars>>

\* upload_parts_stock statement by statement.
\* 1. UPDATE parts_stock SET is_active = FALSE WHERE stock_type = :st AND is_active
UpDeactivate(w, records, stype) ==
    /\ tx[w].pc = "idle"
    /\ tx' = [tx EXCEPT ![w] =
                [IdleTx EXCEPT !.op = "upload_parts_stock", !.stock_type = stype,
                               !.items = records, !.w_deact = TRUE,
                               !.pc = "up_insert"]]
    /\ nUploads' = nUploads + 1
    /\ UNCHANGED <<dbVars, last, prev, restore_count, nStatusCalls, bulk_out, allocVars>>

\* 2. df_final.to_sql("parts_stock", con=conn, if_exists="append")
UpInsert(w) ==
    /\ tx[w].pc = "up_insert"
    /\ LET t == tx[w]
           new == [k \in 1..Len(t.items) |->
                        [id |-> nextStockId + k - 1,
                         part_number |-> Strip(t.items[k].part_number),
                         description |-> t.items[k].description,
                         stock_type |-> t.stock_type,
                         free_stock |-> t.items[k].free_stock,
                         price |-> t.items[k].price,
                         is_active |-> TRUE]]
       IN  /\ tx' = [tx EXCEPT ![w] = [t EXCEPT !.w_rows = new, !.pc = "commit"]]
           /\ nextStockId' = nextStockId + Len(t.items)
    /\ UNCHANGED <<parts_stock, orders, nextOrderId, order_items, cart, nextCartId,
                   histVars, bulk_out, allocVars>>

\* reset_stock as a transaction: its one DELETE, then the commit.
RsDelete(w, stype) ==
    /\ tx[w].pc = "idle"
    /\ Step(w, [IdleTx EXCEPT !.op = "reset_stock", !.stock_type = stype,
                              !.w_stock_del = TRUE, !.pc = "commit"])

(* -------------------------------- cart --------------------------------- *)
\* add_to_cart_db(user_id, part_number, description, qty, price): the row of
\* (user_id, part_number) gets qty added, or a new row is inserted.
AddToCartDb(user, pn, qty, price) ==
    /\ AllIdle
    /\ LET pnum == Strip(pn)
           curr == {c \in cart : c.user_id = user /\ c.part_number = pnum}
       IN  IF curr # {}
           THEN \E c \in curr :
                  /\ cart' = (cart \ {c}) \cup {[c EXCEPT !.qty = c.qty + qty]}
                  /\ nextCartId' = nextCartId
           ELSE /\ cart' = cart \cup {[id |-> nextCartId, user_id |-> user,
                                       part_number |-> pnum, qty |-> qty,
                                       price |-> price]}
                /\ nextCartId' = nextCartId + 1
    /\ last' = [NoCall EXCEPT !.op = "add_to_cart_db", !.user_id = user, !.before = Store]
    /\ prev' = PrevOf(last)
    /\ UNCHANGED <<parts_stock, nextStockId, orders, nextOrderId, order_items, tx,
                   restore_count, nStatusCalls, nUploads, bulk_out, allocVars>>

(* ----------------- create_order (OrderTransactionCoordinator) ---------- *)
\* orders.order_status of a new row: the INSERT names no status, the column's
\* default applies (the schema is not part of src/; spec section 3 and 4.4).
DefaultOrderStatus == "Pending"

\* 1. INSERT INTO orders (user_id, total_price, stock_type) VALUES (:uid, 0, :stype)
\*    RETURNING order_id.  items: sequence of [part_number, qty, price].
CoBegin(w, user, items, stype) ==
    /\ tx[w].pc = "idle"
    /\ tx' = [tx EXCEPT ![w] =
                [IdleTx EXCEPT !.pc = "co_select", !.op = "create_order",
                               !.user_id = user, !.stock_type = stype,
                               !.items = items, !.i = 1, !.order_id = nextOrderId,
                               !.w_header = <<[order_id |-> nextOrderId,
                                               user_id |-> user, total_price |-> 0,
                                               order_status |-> DefaultOrderStatus,
                                               stock_type |-> stype]>>]]
    /\ nextOrderId' = nextOrderId + 1
    /\ UNCHANGED <<parts_stock, nextStockId, orders, order_items, cart, nextCartId,
                   histVars, bulk_out, allocVars>>

\* The outcomes of SELECT free_stock ... WHERE part_number, stock_type; fetchone():
\* no row, or any one of the matching rows (the statement has no ORDER BY and no
\* is_active filter).
SelectFreeStock(w, pn, stype) ==
    IF MatchingRows(pn, stype) = {}
    THEN {[found |-> FALSE, free_stock |-> 0]}
    ELSE {[found |-> TRUE, free_stock |-> FreeStockSeenBy(w, k)] :
             k \in MatchingRows(pn, stype)}

\* A line whose qty is not a number (a string, None): the record has the field
\* `malformed` and its qty is never used as a number.
Malformed(item) == "malformed" \in DOMAIN item

HasMalformed(items) == \E k \in 1..Len(items) : Malformed(items[k])

\* 2./3. read the live stock of line i and cap the allocation; on a qty that is
\*       not a number min(requested_qty, current_stock) raises TypeError, after
\*       the SELECT has run.
CoSelect(w) ==
    /\ tx[w].pc = "co_select"
    /\ LET t == tx[w]
           item == t.items[t.i]
       IN  IF Malformed(item)
           THEN AbortOnError(w, "TypeError")
           ELSE \E lookup \in SelectFreeStock(w, item.part_number, t.stock_type) :
                  LET cs == CreateOrderCurrentStock(lookup)
                      a == CreateOrderAllocation(item.qty, cs)
                  IN  Step(w, [t EXCEPT !.current_stock = cs, !.allocated_qty = a,
                                        !.pc = IF a > 0 THEN "co_update" ELSE "co_insert"])

\* show_cart_ui, "Confirm Order (Selected Items only)": the selected rows of the
\* user's cart, in the order of their ids, become the items of create_order.
CartLines(sel) ==
    LET n == Cardinality(sel)
        q == CHOOSE f \in [1..n -> sel] :
                \A a, b \in 1..n : a < b => f[a].id < f[b].id
    IN  [k \in 1..n |-> [part_number |-> q[k].part_number, qty |-> q[k].qty,
                         price |-> q[k].price]]

ConfirmOrder(w, user, sel, stype) ==
    /\ tx[w].pc = "idle"
    /\ sel # {}
    /\ sel \subseteq {c \in cart : c.user_id = user}
    /\ tx' = [tx EXCEPT ![w] =
                [IdleTx EXCEPT !.pc = "co_select", !.op = "create_order",
                               !.user_id = user, !.stock_type = stype,
                               !.items = CartLines(sel), !.i = 1,
                               !.order_id = nextOrderId,
                               !.selected = {c.id : c \in sel},
                               !.w_header = <<[order_id |-> nextOrderId,
                                               user_id |-> user, total_price |-> 0,
                                               order_status |-> DefaultOrderStatus,
                                               stock_type |-> stype]>>]]
    /\ nextOrderId' = nextOrderId + 1
    /\ UNCHANGED <<parts_stock, nextStockId, orders, order_items, cart, nextCartId,
                   histVars, bulk_out, allocVars>>

\* 4. UPDATE parts_stock SET free_stock = free_stock - :qty (only if allocated > 0);
\*    it waits while another transaction holds a matching row.
CoUpdate(w) ==
    /\ tx[w].pc = "co_update"
    /\ LET t == tx[w]
           item == t.items[t.i]
       IN  /\ ~StockLockedByOther(w, MatchingIds(item.part_number, t.stock_type))
           /\ Step(w, [t EXCEPT
                         !.w_stock = StagedStockUpdate(w, item.part_number,
                                                       t.stock_type, 0 - t.allocated_qty),
                         !.pc = "co_insert"])

\* The order_items row of line i.
NewOrderItemRequestedAsAllocated(t) ==
    [id |-> <<t.order_id, t.i>>, order_id |-> t.order_id,
     part_number |-> t.items[t.i].part_number,
     qty |-> t.allocated_qty,
     requested_qty |-> t.allocated_qty,
     available_qty |-> t.current_stock,
     price |-> t.items[t.i].price]

\* An item whose available_qty is the stock left after the line's deduction.
NewOrderItemSnapshotAfter(t) ==
    [id |-> <<t.order_id, t.i>>, order_id |-> t.order_id,
     part_number |-> t.items[t.i].part_number,
     qty |-> t.allocated_qty,
     requested_qty |-> t.items[t.i].qty,
     available_qty |-> t.current_stock - t.allocated_qty,
     price |-> t.items[t.i].price]

NewOrderItem(t) ==
    [id |-> <<t.order_id, t.i>>, order_id |-> t.order_id,
     part_number |-> t.items[t.i].part_number,
     qty |-> t.allocated_qty,
     requested_qty |-> t.items[t.i].qty,
     available_qty |-> t.current_stock,
     price |-> t.items[t.i].price]

\* allocated_qty * item['price'], the value line i adds to total_alloc_price
LineTotalRequested(t) == t.items[t.i].qty * t.items[t.i].price

LineTotal(t) == t.allocated_qty * t.items[t.i].price

\* 5. INSERT INTO order_items ...; total_alloc_price += allocated_qty * price
CoInsert(w) ==
    /\ tx[w].pc = "co_insert"
    /\ LET t == tx[w]
       IN  Step(w, [t EXCEPT
                      !.w_items = Append(@, NewOrderItem(t)),
                      !.total_alloc_price = @ + LineTotal(t),
                      !.i = @ + 1,
                      !.pc = IF t.i + 1 > Len(t.items) THEN "co_total" ELSE "co_select"])

\* 6. UPDATE orders SET total_price = :tot WHERE order_id = :oid
CoTotal(w) ==
    /\ tx[w].pc = "co_total"
    /\ LET t == tx[w]
       IN  Step(w, [t EXCEPT
                      !.w_header = <<[Val(@) EXCEPT !.total_price = t.total_alloc_price]>>,
                      !.pc = "co_cart"])

\* DELETE FROM cart without its WHERE clause.
CoCartAllUsers(w) ==
    /\ tx[w].pc = "co_cart"
    /\ Step(w, [tx[w] EXCEPT !.w_cart_del = {c.id : c \in cart}, !.pc = "commit"])

\* 7. DELETE FROM cart WHERE user_id = :uid
CoCart(w) ==
    /\ tx[w].pc = "co_cart"
    /\ LET t == tx[w]
       IN  Step(w, [t EXCEPT
                      !.w_cart_del = {c.id : c \in {x \in cart : x.user_id = t.user_id}},
                      !.pc = "commit"])

(* ------------------------ restore_stock_from_order --------------------- *)
\* 1. SELECT part_number, qty FROM order_items WHERE order_id = :oid
RsItems(w) ==
    /\ tx[w].pc = "rs_items"
    /\ LET t == tx[w]
       IN  Step(w, [t EXCEPT
                      !.ritems = SelectSeq(order_items,
                                           LAMBDA it : it.order_id = t.order_id),
                      !.pc = "rs_header"])

\* 2. SELECT stock_type FROM orders WHERE order_id = :oid; if not header: return
RsHeader(w) ==
    /\ tx[w].pc = "rs_header"
    /\ LET t == tx[w]
           hs == {o \in orders : o.order_id = t.order_id}
       IN  IF hs = {}
           THEN Step(w, [t EXCEPT !.pc = t.after])
           ELSE \E h \in hs :
                  Step(w, [t EXCEPT !.rstype = h.stock_type, !.ri = 1,
                                    !.pc = IF t.ritems = <<>> THEN t.after
                                           ELSE "rs_loop"])

\* The quantity restore_stock_from_order credits for an item: its allocated qty.
RestoreAmountRequested(item) == item.requested_qty

RestoreAmount(item) == item.qty

\* A restoration that insists on a stock row to credit: it raises when the
\* UPDATE matches no row.
RsLoopRequiresRow(w) ==
    /\ tx[w].pc = "rs_loop"
    /\ LET t == tx[w]
           item == t.ritems[t.ri]
           ids == MatchingIds(item.part_number, t.rstype)
           next == IF t.ri + 1 > Len(t.ritems) THEN t.after ELSE "rs_loop"
       IN  IF item.qty > 0 /\ ids = {}
           THEN AbortOnError(w, "no stock row")
           ELSE IF item.qty > 0
           THEN /\ ~StockLockedByOther(w, ids)
                /\ Step(w, [t EXCEPT
                              !.w_stock = StagedStockUpdate(w, item.part_number,
                                                            t.rstype, item.qty),
                              !.restored = Append(@, item.id),
                              !.ri = @ + 1, !.pc = next])
           ELSE Step(w, [t EXCEPT !.ri = @ + 1, !.pc = next])

\* 3. for item in items: if item.qty > 0: UPDATE parts_stock SET free_stock =
\*    free_stock + :qty WHERE part_number, stock_type
RsLoop(w) ==
    /\ tx[w].pc = "rs_loop"
    /\ LET t == tx[w]
           item == t.ritems[t.ri]
           ids == MatchingIds(item.part_number, t.rstype)
           next == IF t.ri + 1 > Len(t.ritems) THEN t.after ELSE "rs_loop"
       IN  IF item.qty > 0
           THEN /\ ~StockLockedByOther(w, ids)
                /\ Step(w, [t EXCEPT
                              !.w_stock = StagedStockUpdate(w, item.part_number,
                                                            t.rstype, RestoreAmount(item)),
                              !.restored = IF ids = {} THEN @ ELSE Append(@, item.id),
                              !.ri = @ + 1, !.pc = next])
           ELSE Step(w, [t EXCEPT !.ri = @ + 1, !.pc = next])

(* --------------- update_order_status / delete_order -------------------- *)
\* if curr and curr.order_status != 'Rejected' and status == 'Rejected':
\*     restore_stock_from_order(conn, order_id)
\* curr is NULL when no order has the id.
UsAfterSelectNoGuard(curr, status) ==
    IF ~IsNull(curr) /\ status = "Rejected" THEN "rs_items" ELSE "us_update"

\* A guard that forgets the new status: any change of a non-rejected order restores.
UsAfterSelectAnyStatus(curr, status) ==
    IF ~IsNull(curr) /\ Val(curr) # "Rejected" THEN "rs_items" ELSE "us_update"

UsAfterSelect(curr, status) ==
    IF ~IsNull(curr) /\ Val(curr) # "Rejected" /\ status = "Rejected"
    THEN "rs_items" ELSE "us_update"

\* curr = SELECT order_status FROM orders WHERE order_id = :oid
UsSelect(w, oid, status) ==
    /\ tx[w].pc = "idle"
    /\ LET hs == {o \in orders : o.order_id = oid}
           curr == IF hs = {} THEN NULL ELSE <<(CHOOSE o \in hs : TRUE).order_status>>
       IN  tx' = [tx EXCEPT ![w] =
                    [IdleTx EXCEPT !.op = "update_order_status", !.order_id = oid,
                                   !.status = status, !.after = "us_update",
                                   !.pc = UsAfterSelect(curr, status)]]
    /\ nStatusCalls' = nStatusCalls + 1
    /\ UNCHANGED <<dbVars, last, prev, restore_count, nUploads, bulk_out, allocVars>>

\* UPDATE orders SET order_status = :status WHERE order_id = :oid
UsUpdate(w) ==
    /\ tx[w].pc = "us_update"
    /\ ~OrderLockedByOther(w, tx[w].order_id)
    /\ Step(w, [tx[w] EXCEPT !.w_status = <<tx[w].status>>, !.pc = "commit"])

\* delete_order starts by restore_stock_from_order(conn, order_id), whatever the
\* order's status.
DoFirstStepUnlessRejected(oid) ==
    IF \E o \in orders : o.order_id = oid /\ o.order_status = "Rejected"
    THEN "do_items" ELSE "rs_items"

DoFirstStep(oid) == "rs_items"

DoBegin(w, oid) ==
    /\ tx[w].pc = "idle"
    /\ Step(w, [IdleTx EXCEPT !.op = "delete_order", !.order_id = oid,
                              !.after = "do_items", !.pc = DoFirstStep(oid)])

\* delete_order without its DELETE FROM order_items.
DoItemsSkipped(w) ==
    /\ tx[w].pc = "do_items"
    /\ Step(w, [tx[w] EXCEPT !.pc = "do_header"])

\* DELETE FROM order_items WHERE order_id = :oid
DoItems(w) ==
    /\ tx[w].pc = "do_items"
    /\ Step(w, [tx[w] EXCEPT !.w_items_del = TRUE, !.pc = "do_header"])

\* DELETE FROM orders WHERE order_id = :oid
DoHeader(w) ==
    /\ tx[w].pc = "do_header"
    /\ ~OrderLockedByOther(w, tx[w].order_id)
    /\ Step(w, [tx[w] EXCEPT !.w_order_del = TRUE, !.pc = "commit"])

\* The quantity a restoration of the orders os would credit to part pn of pool
\* stype: the positive qty of their items.
RECURSIVE CreditOfItems(_, _, _, _)
CreditOfItems(its, os, pn, stype) ==
    IF its = <<>> THEN 0
    ELSE (IF /\ Head(its).part_number = pn
             /\ Head(its).qty > 0
             /\ \E o \in os : o.order_id = Head(its).order_id /\ o.stock_type = stype
          THEN Head(its).qty ELSE 0)
         + CreditOfItems(Tail(its), os, pn, stype)

CreditedBy(os, pn, stype) == CreditOfItems(order_items, os, pn, stype)

(* ------------- delete_all_orders / delete_all_users_history ------------ *)
\* parts_stock after a bulk deletion of orders: no statement of the two
\* handlers touches it.
StockAfterDeleteAllRestoring(os) ==
    [k \in 1..Len(parts_stock) |->
        [parts_stock[k] EXCEPT !.free_stock =
            @ + CreditedBy(os, parts_stock[k].part_number, parts_stock[k].stock_type)]]

StockAfterDeleteAll(os) == parts_stock

\* delete_all_orders(stock_type): DELETE FROM order_items WHERE order_id IN
\* (SELECT order_id FROM orders WHERE stock_type = :st); DELETE FROM orders
\* WHERE stock_type = :st
DeleteAllOrders(stype) ==
    /\ AllIdle
    /\ LET os == {o \in orders : o.stock_type = stype}
           ids == {o.order_id : o \in os}
       IN  /\ order_items' = SelectSeq(order_items, LAMBDA it : it.order_id \notin ids)
           /\ orders' = orders \ os
           /\ parts_stock' = StockAfterDeleteAll(os)
    /\ last' = [NoCall EXCEPT !.op = "delete_all_orders", !.stock_type = stype,
                              !.msg = "All orders deleted", !.before = Store]
    /\ prev' = PrevOf(last)
    /\ UNCHANGED <<nextStockId, nextOrderId, cart, nextCartId, tx, restore_count,
                   nStatusCalls, nUploads, bulk_out, allocVars>>

\* delete_all_users_history(): DELETE FROM order_items; DELETE FROM orders
DeleteAllUsersHistory ==
    /\ AllIdle
    /\ order_items' = <<>>
    /\ orders' = {}
    /\ parts_stock' = StockAfterDeleteAll(orders)
    /\ last' = [NoCall EXCEPT !.op = "delete_all_users_history",
                              !.msg = "All history deleted", !.before = Store]
    /\ prev' = PrevOf(last)
    /\ UNCHANGED <<nextStockId, nextOrderId, cart, nextCartId, tx, restore_count,
                   nStatusCalls, nUploads, bulk_out, allocVars>>

(* ------------------------ process_bulk_enquiry ------------------------- *)
\* df['part_number'].astype(str).str.replace("-", "").str.strip()
CleanPartNumber(pn) == Strip(SelectSeq(pn, LAMBDA c : c # "-"))

\* The order of strings groupby sorts its keys by (code points of the characters).
CharCode(c) == CASE c = " " -> 32 [] c = "-" -> 45 [] c = "A" -> 65 [] c = "B" -> 66

RECURSIVE PnLess(_, _)
PnLess(a, b) ==
    IF a = <<>> THEN b # <<>>
    ELSE IF b = <<>> THEN FALSE
    ELSE IF Head(a) = Head(b) THEN PnLess(Tail(a), Tail(b))
    ELSE CharCode(Head(a)) < CharCode(Head(b))

RECURSIVE SortedPns(_)
SortedPns(S) ==
    IF S = {} THEN <<>>
    ELSE LET m == CHOOSE x \in S : \A y \in S \ {x} : PnLess(x, y)
         IN  <<m>> \o SortedPns(S \ {m})

RECURSIVE QtyOf(_, _)
QtyOf(rows, pn) ==
    IF rows = <<>> THEN 0
    ELSE (IF Head(rows).part_number = pn THEN Head(rows).qty ELSE 0) + QtyOf(Tail(rows), pn)

\* df.groupby('part_number', as_index=False)['qty'].sum() after the cleaning: one
\* row per distinct cleaned part number, keys sorted, quantities summed.
GroupByPartNumber(df) ==
    LET cleaned == [k \in 1..Len(df) |->
                      [part_number |-> CleanPartNumber(df[k].part_number),
                       qty |-> df[k].qty]]
        keys == SortedPns({cleaned[k].part_number : k \in 1..Len(cleaned)})
    IN  [j \in 1..Len(keys) |->
            [part_number |-> keys[j], qty |-> QtyOf(cleaned, keys[j])]]

\* SELECT part_number, description, free_stock, price FROM parts_stock
\* WHERE stock_type = :st AND is_active = TRUE
ActiveStock(stype) ==
    SelectSeq(parts_stock, LAMBDA r : r.stock_type = stype /\ r.is_active)

\* df.merge(stock, on="part_number", how="left") for one left row: one merged row
\* per matching stock row, or one row of NaN; then no_record, available_qty and
\* calculate_allocation.
MergeLeftRow(row, stock) ==
    LET hits == SelectSeq(stock, LAMBDA r : r.part_number = row.part_number)
        Out(lookup, price) ==
            LET m == BulkMergedRow(row.qty, lookup)
                a == CalculateAllocation(m)
            IN  [part_number |-> row.part_number, qty |-> row.qty,
                 description |-> m.description, price |-> price,
                 no_record |-> m.no_record, available_qty |-> m.available_qty,
                 allocated_qty |-> a.allocated_qty, status |-> a.status]
    IN  IF hits = <<>>
        THEN <<Out([found |-> FALSE, free_stock |-> 0, description |-> NULL], NULL)>>
        ELSE [k \in 1..Len(hits) |->
                Out([found |-> TRUE, free_stock |-> hits[k].free_stock,
                     description |-> hits[k].description], <<hits[k].price>>)]

RECURSIVE MergeLeft(_, _)
MergeLeft(rows, stock) ==
    IF rows = <<>> THEN <<>>
    ELSE MergeLeftRow(Head(rows), stock) \o MergeLeft(Tail(rows), stock)

\* process_bulk_enquiry(df_bulk, stock_type, adjustment_percent = 0): the merged
\* review table.  df: sequence of [part_number, qty].
ProcessBulkEnquiry(df, stype) ==
    /\ AllIdle
    /\ bulk_out' = [df |-> df, stock_type |-> stype,
                    stock |-> ActiveStock(stype),      \* history: the rows it read
                    merged |-> MergeLeft(GroupByPartNumber(df), ActiveStock(stype))]
    /\ UNCHANGED <<dbVars, tx, histVars, allocVars>>

(* ------------------------------ Spec ----------------------------------- *)
\* The engine with one request handler at a time: uploads, orders, status
\* changes and deletions, each call running to its return before the next starts.
\* Unit prices of the catalog; a line carries the price of its part.
PriceOf(pn) == IF pn = PartA THEN 5 ELSE 2

\* The description cell of a catalog row that has one.
SomeDescription == <<"desc">>

\* All sequences over S of length 1..n.
RECURSIVE SeqsUpTo(_, _)
SeqsUpTo(S, n) ==
    IF n = 0 THEN {<<>>}
    ELSE LET shorter == SeqsUpTo(S, n - 1)
         IN  shorter \cup {Append(q, x) : q \in shorter, x \in S}

NonEmptySeqs(S, n) == SeqsUpTo(S, n) \ {<<>>}

SpecUploads ==
    {<<[part_number |-> PartA, free_stock |-> ScenarioStock, price |-> PriceOf(PartA),
        description |-> SomeDescription]>>,
     <<[part_number |-> PartA, free_stock |-> LowStock, price |-> PriceOf(PartA),
        description |-> SomeDescription],
       [part_number |-> PartB, free_stock |-> 0, price |-> PriceOf(PartB),
        description |-> SomeDescription]>>,
     <<[part_number |-> PartA, free_stock |-> LowStock, price |-> PriceOf(PartA),
        description |-> SomeDescription],
       [part_number |-> PartA, free_stock |-> ScenarioStock, price |-> PriceOf(PartA),
        description |-> SomeDescription]>>}

Line(pn, q) == [part_number |-> pn, qty |-> q, price |-> PriceOf(pn)]

\* One line, two lines of the same part, two lines of different parts.
SpecItemLists ==
    {<<Line(PartA, ScenarioReq)>>, <<Line(PartA, SmallReq)>>, <<Line(PartB, SmallReq)>>,
     <<Line(PartA, SmallReq), Line(PartA, ScenarioReq)>>,
     <<Line(PartB, SmallReq), Line(PartA, SmallReq)>>}

OrderIds == 1..MaxOrders

Init ==
    /\ InitStore
    /\ alloc_in = [requested_qty |-> 0, lookup |-> [found |-> FALSE, free_stock |-> 0,
                                                       description |-> NULL]]
    /\ alloc_out = NoOutput

Next ==
    \/ \E recs \in SpecUploads, st \in Pools :
          nUploads < MaxUploads /\ UploadPartsStock(recs, st)
    \/ \E items \in SpecItemLists, st \in Pools :
          nextOrderId <= MaxOrders /\ CoBegin("w1", "u1", items, st)
    \/ CoSelect("w1")
    \/ CoUpdate("w1")
    \/ CoInsert("w1")
    \/ CoTotal("w1")
    \/ CoCart("w1")
    \/ \E oid \in OrderIds, st \in {"Accepted", "Rejected"} :
          nStatusCalls < MaxStatusCalls /\ UsSelect("w1", oid, st)
    \/ UsUpdate("w1")
    \/ \E oid \in OrderIds : DoBegin("w1", oid)
    \/ DoItems("w1")
    \/ DoHeader("w1")
    \/ RsItems("w1")
    \/ RsHeader("w1")
    \/ RsLoop("w1")
    \/ Commit("w1")

Spec == Init /\ [][Next]_vars

(* --------------------------- SpecAlloc --------------------------------- *)
\* free_stock from -1: a row can hold a negative quantity.
Lookups == {[found |-> FALSE, free_stock |-> 0, description |-> NULL]}
             \cup {[found |-> TRUE, free_stock |-> a, description |-> d] :
                      a \in (0 - 1)..MaxAvail, d \in {NULL, SomeDescription}}

InitAlloc ==
    /\ InitStore
    /\ alloc_in \in [requested_qty : 0..MaxReq, lookup : Lookups]
    /\ alloc_out = NoOutput

ApplyCreateOrder ==
    /\ alloc_out.path = "none"
    /\ alloc_out' = [path |-> "create_order",
                     allocated_qty |-> CreateOrderAllocation(alloc_in.requested_qty,
                                           CreateOrderCurrentStock(alloc_in.lookup)),
                     status |-> ""]
    /\ UNCHANGED <<alloc_in, dbVars, tx, histVars, bulk_out>>

ApplyBulk ==
    /\ alloc_out.path = "none"
    /\ LET r == CalculateAllocation(BulkMergedRow(alloc_in.requested_qty, alloc_in.lookup))
       IN alloc_out' = [path |-> "bulk", allocated_qty |-> r.allocated_qty,
                        status |-> r.status]
    /\ UNCHANGED <<alloc_in, dbVars, tx, histVars, bulk_out>>

ApplyCart ==
    /\ alloc_out.path = "none"
    /\ LET r == CartAllocation(alloc_in.requested_qty, CartJoinAvailable(alloc_in.lookup))
       IN alloc_out' = [path |-> "cart", allocated_qty |-> r.allocated_qty,
                        status |-> r.status]
    /\ UNCHANGED <<alloc_in, dbVars, tx, histVars, bulk_out>>

NextAlloc == ApplyCreateOrder \/ ApplyBulk \/ ApplyCart

SpecAlloc == InitAlloc /\ [][NextAlloc]_vars

(* ----------------------------- SpecTx ---------------------------------- *)
\* create_order as a unit of work: carts are filled, an order of up to three
\* lines is placed, and any statement of it may raise.
TxUploads ==
    {<<[part_number |-> PartA, free_stock |-> MaxAvail, price |-> PriceOf(PartA),
        description |-> SomeDescription],
       [part_number |-> PartB, free_stock |-> LowStock, price |-> PriceOf(PartB),
        description |-> SomeDescription]>>}

TxItemLists ==
    {<<Line(PartA, SmallReq)>>,
     <<Line(PartA, SmallReq), Line(PartB, SmallReq)>>,
     <<Line(PartA, SmallReq), Line(PartB, SmallReq), Line(PartA, SmallReq)>>,
     <<Line(PartB, SmallReq), Line(PartA, SmallReq), Line(PartA, SmallReq)>>}

NextTx ==
    \/ \E recs \in TxUploads :                 \* one catalog
          parts_stock = <<>> /\ UploadPartsStock(recs, "parts_stock")
    \/ \E u \in Users, pn \in Parts :
          /\ nextCartId <= MaxCartRows
          /\ \A c \in cart : c.qty < MaxCartQty
          /\ AddToCartDb(u, pn, 1, PriceOf(pn))
    \/ \E items \in TxItemLists :
          nextOrderId <= MaxOrders /\ CoBegin("w1", "u1", items, "parts_stock")
    \/ CoSelect("w1")
    \/ CoUpdate("w1")
    \/ CoInsert("w1")
    \/ CoTotal("w1")
    \/ CoCart("w1")
    \/ Commit("w1")
    \/ Fail("w1")

SpecTx == Init /\ [][NextTx]_vars

(* ---------------------------- SpecConc --------------------------------- *)
\* Two request handlers placing orders at the same time on one catalog with one
\* row per part (uploaded once, into the empty table).
ConcUploads ==
    {<<[part_number |-> PartA, free_stock |-> MaxAvail, price |-> PriceOf(PartA),
        description |-> SomeDescription],
       [part_number |-> PartB, free_stock |-> MaxAvail, price |-> PriceOf(PartB),
        description |-> SomeDescription]>>}

ConcItemLists ==
    {<<Line(PartA, SmallReq)>>,
     <<Line(PartA, SmallReq), Line(PartB, SmallReq)>>,
     <<Line(PartB, SmallReq), Line(PartA, SmallReq)>>}

UserOf(w) == IF w = "w1" THEN "u1" ELSE "u2"

NextConc ==
    \/ \E recs \in ConcUploads :
          parts_stock = <<>> /\ UploadPartsStock(recs, "parts_stock")
    \/ \E w \in Workers :
          \/ \E items \in ConcItemLists :
                /\ parts_stock # <<>>
                /\ nextOrderId <= MaxConcOrders
                /\ CoBegin(w, UserOf(w), items, "parts_stock")
          \/ CoSelect(w)
          \/ CoUpdate(w)
          \/ CoInsert(w)
          \/ CoTotal(w)
          \/ CoCart(w)
          \/ Commit(w)
          \/ Fail(w)

SpecConc == Init /\ [][NextConc]_vars

(* ---------------------------- SpecBulk --------------------------------- *)
\* Bulk enquiries against uploaded catalogs.  Input rows name a part with or
\* without a hyphen; a catalog may name a part twice.
BulkUploads ==
    {<<[part_number |-> PartA, free_stock |-> 6, price |-> PriceOf(PartA),
        description |-> SomeDescription]>>,
     <<[part_number |-> PartA, free_stock |-> 6, price |-> PriceOf(PartA),
        description |-> SomeDescription],
       [part_number |-> PartB, free_stock |-> 0, price |-> PriceOf(PartB),
        description |-> SomeDescription]>>,
     <<[part_number |-> PartA, free_stock |-> 6, price |-> PriceOf(PartA),
        description |-> SomeDescription],
       [part_number |-> PartA, free_stock |-> 6, price |-> PriceOf(PartA),
        description |-> SomeDescription]>>}

BulkRows == [part_number : {PartA, PartAHyphen, PartB}, qty : {3, 5}]

NextBulk ==
    \/ \E recs \in BulkUploads, st \in Pools :
          nUploads < MaxUploads /\ UploadPartsStock(recs, st)
    \/ \E df \in NonEmptySeqs(BulkRows, MaxBulkRows), st \in Pools :
          ProcessBulkEnquiry(df, st)

SpecBulk == Init /\ [][NextBulk]_vars

(* ----------------------------- SpecRej --------------------------------- *)
\* Two administrators rejecting orders at the same time: one catalog, one
\* order, update_order_status(order_id, "Rejected") from either handler.
NextRej ==
    \/ \E recs \in ConcUploads :
          parts_stock = <<>> /\ UploadPartsStock(recs, "parts_stock")
    \/ \E items \in ConcItemLists :
          /\ parts_stock # <<>>
          /\ nextOrderId <= MaxOrders
          /\ CoBegin("w1", "u1", items, "parts_stock")
    \/ CoSelect("w1")
    \/ CoUpdate("w1")
    \/ CoInsert("w1")
    \/ CoTotal("w1")
    \/ CoCart("w1")
    \/ \E w \in Workers :
          \/ \E o \in orders :      \* the dashboard lists the orders of the tables
                nStatusCalls < MaxRejects /\ UsSelect(w, o.order_id, "Rejected")
          \/ RsItems(w)
          \/ RsHeader(w)
          \/ RsLoop(w)
          \/ UsUpdate(w)
          \/ Commit(w)

SpecRej == Init /\ [][NextRej]_vars

(* ----------------------------- SpecWipe -------------------------------- *)
\* Orders in both pools, a status change, and the administrator's bulk
\* deletions (offered by the dashboard while there are orders to delete).
WipeItemLists ==
    {<<Line(PartA, SmallReq)>>, <<Line(PartA, SmallReq), Line(PartB, SmallReq)>>}

NextWipe ==
    \/ \E recs \in TxUploads, st \in Pools :     \* one catalog per pool
          ActiveStock(st) = <<>> /\ UploadPartsStock(recs, st)
    \/ \E items \in WipeItemLists, st \in Pools :
          nextOrderId <= MaxWipeOrders /\ CoBegin("w1", "u1", items, st)
    \/ CoSelect("w1")
    \/ CoUpdate("w1")
    \/ CoInsert("w1")
    \/ CoTotal("w1")
    \/ CoCart("w1")
    \/ \E oid \in 1..MaxWipeOrders, st \in {"Accepted", "Rejected"} :
          nStatusCalls < MaxWipeStatusCalls /\ UsSelect("w1", oid, st)
    \/ RsItems("w1")
    \/ RsHeader("w1")
    \/ RsLoop("w1")
    \/ UsUpdate("w1")
    \/ Commit("w1")
    \/ \E st \in Pools :
          (\E o \in orders : o.stock_type = st) /\ DeleteAllOrders(st)
    \/ orders # {} /\ DeleteAllUsersHistory

SpecWipe == Init /\ [][NextWipe]_vars

(* ----------------------------- SpecLive -------------------------------- *)
\* Two request handlers at a time placing, rejecting and deleting orders, with
\* orders that name the same two parts in opposite line order.  A handler that
\* has started keeps executing its statements, and a statement waiting for a
\* row lock gets it when the holder ends (the server queues the waiters), which
\* is strong fairness of the handler's steps; a lock cycle is ended by the
\* server.  Calls are not obliged to start.
LiveItemLists ==
    {<<Line(PartA, 1), Line(PartB, 1)>>, <<Line(PartB, 1), Line(PartA, 1)>>}

LiveStep(w) ==
    \/ CoSelect(w)
    \/ CoUpdate(w)
    \/ CoInsert(w)
    \/ CoTotal(w)
    \/ CoCart(w)
    \/ RsItems(w)
    \/ RsHeader(w)
    \/ RsLoop(w)
    \/ UsUpdate(w)
    \/ DoItems(w)
    \/ DoHeader(w)
    \/ Commit(w)

NextLive ==
    \/ \E recs \in ConcUploads :
          parts_stock = <<>> /\ UploadPartsStock(recs, "parts_stock")
    \/ \E o \in orders :
          nStatusCalls < MaxLiveStatusCalls /\ UsSelect("w2", o.order_id, "Rejected")
    \/ \E o \in orders : DoBegin("w1", o.order_id)
    \/ \E w \in Workers :
          \/ \E items \in LiveItemLists :
                /\ parts_stock # <<>>
                /\ nextOrderId <= MaxLiveOrders
                /\ CoBegin(w, UserOf(w), items, "parts_stock")
          \/ LiveStep(w)
          \/ DeadlockAbort(w)

SpecLive ==
    /\ Init
    /\ [][NextLive]_vars
    /\ \A w \in Workers : SF_vars(LiveStep(w)) /\ WF_vars(DeadlockAbort(w))

(* ----------------------------- SpecCart -------------------------------- *)
\* Orders from the cart: users fill their carts, a user confirms an order for
\* some of the rows of the cart; create_order is also called with item lists
\* of its own, one of them with a line whose qty is not a number.
BadLine(pn) == [part_number |-> pn, qty |-> 0, price |-> PriceOf(pn), malformed |-> TRUE]

CartItemLists ==
    {<<Line(PartA, 1)>>, <<Line(PartA, 1), BadLine(PartB)>>}

NextCart ==
    \/ \E recs \in TxUploads :
          parts_stock = <<>> /\ UploadPartsStock(recs, "parts_stock")
    \/ \E u \in Users, pn \in Parts :
          /\ nextCartId <= MaxCartRows
          /\ \A c \in cart : c.qty < MaxCartQty
          /\ AddToCartDb(u, pn, 1, PriceOf(pn))
    \/ \E sel \in SUBSET cart :
          nextOrderId <= MaxCartOrders /\ ConfirmOrder("w1", "u1", sel, "parts_stock")
    \/ \E items \in CartItemLists :
          nextOrderId <= MaxCartOrders /\ CoBegin("w1", "u1", items, "parts_stock")
    \/ CoSelect("w1")
    \/ CoUpdate("w1")
    \/ CoInsert("w1")
    \/ CoTotal("w1")
    \/ CoCart("w1")
    \/ Commit("w1")
    \/ Fail("w1")

SpecCart == Init /\ [][NextCart]_vars

(* ----------------------------- SpecLedger ------------------------------ *)
\* One catalog, uploaded into the empty table before any order; afterwards
\* only create_order, update_order_status and delete_order run, one call at
\* a time: no upload, no reset_stock, no bulk deletion of orders.
NextLedger ==
    \/ \E recs \in TxUploads :
          /\ parts_stock = <<>>
          /\ nextOrderId = 1
          /\ UploadPartsStock(recs, "parts_stock")
    \/ \E items \in TxItemLists :
          /\ parts_stock # <<>>
          /\ nextOrderId <= MaxLedgerOrders
          /\ CoBegin("w1", "u1", items, "parts_stock")
    \/ CoSelect("w1")
    \/ CoUpdate("w1")
    \/ CoInsert("w1")
    \/ CoTotal("w1")
    \/ CoCart("w1")
    \/ \E o \in orders, st \in {"Accepted", "Rejected"} :
          nStatusCalls < MaxLedgerStatusCalls /\ UsSelect("w1", o.order_id, st)
    \/ UsUpdate("w1")
    \/ \E o \in orders : DoBegin("w1", o.order_id)
    \/ DoItems("w1")
    \/ DoHeader("w1")
    \/ RsItems("w1")
    \/ RsHeader("w1")
    \/ RsLoop("w1")
    \/ Commit("w1")

SpecLedger == Init /\ [][NextLedger]_vars

(* ----------------------------- SpecPools ------------------------------- *)
\* Two pools holding the same parts: catalogs are uploaded into and wiped from
\* either pool, orders are created in either pool, rejected and deleted.
PoolItemLists ==
    {<<Line(PartA, SmallReq)>>, <<Line(PartB, SmallReq), Line(PartA, SmallReq)>>}

NextPools ==
    \/ \E recs \in TxUploads, st \in Pools :
          nUploads < MaxPoolUploads /\ UploadPartsStock(recs, st)
    \/ \E st \in Pools : ResetStock(st)
    \/ \E items \in PoolItemLists, st \in Pools :
          nextOrderId <= MaxPoolOrders /\ CoBegin("w1", "u1", items, st)
    \/ CoSelect("w1")
    \/ CoUpdate("w1")
    \/ CoInsert("w1")
    \/ CoTotal("w1")
    \/ CoCart("w1")
    \/ \E o \in orders :
          nStatusCalls < MaxPoolStatusCalls /\ UsSelect("w1", o.order_id, "Rejected")
    \/ UsUpdate("w1")
    \/ \E o \in orders : DoBegin("w1", o.order_id)
    \/ DoItems("w1")
    \/ DoHeader("w1")
    \/ RsItems("w1")
    \/ RsHeader("w1")
    \/ RsLoop("w1")
    \/ Commit("w1")

SpecPools == Init /\ [][NextPools]_vars

(* ----------------------------- SpecAbort ------------------------------- *)
\* The order lifecycle with failing storage: orders are placed, accepted,
\* rejected and deleted, one by one or all at once, and any statement of a
\* running transaction may raise.
AbortItemLists ==
    {<<Line(PartA, SmallReq)>>, <<Line(PartB, SmallReq), Line(PartA, 1)>>}

NextAbort ==
    \/ \E recs \in TxUploads :
          parts_stock = <<>> /\ UploadPartsStock(recs, "parts_stock")
    \/ \E items \in AbortItemLists, st \in Pools :
          /\ parts_stock # <<>>
          /\ nextOrderId <= MaxAbortOrders
          /\ CoBegin("w1", "u1", items, st)
    \/ CoSelect("w1")
    \/ CoUpdate("w1")
    \/ CoInsert("w1")
    \/ CoTotal("w1")
    \/ CoCart("w1")
    \/ \E o \in orders, st \in {"Accepted", "Rejected"} :
          nStatusCalls < MaxAbortStatusCalls /\ UsSelect("w1", o.order_id, st)
    \/ \E o \in orders : DoBegin("w1", o.order_id)
    \/ RsItems("w1")
    \/ RsHeader("w1")
    \/ RsLoop("w1")
    \/ UsUpdate("w1")
    \/ DoItems("w1")
    \/ DoHeader("w1")
    \/ Commit("w1")
    \/ Fail("w1")
    \/ \E st \in Pools :
          (\E o \in orders : o.stock_type = st) /\ DeleteAllOrders(st)
    \/ orders # {} /\ DeleteAllUsersHistory

SpecAbort == Init /\ [][NextAbort]_vars

(* ---------------------------- SpecCatalog ------------------------------ *)
\* Catalog maintenance with failing storage: pools are uploaded, re-uploaded
\* and wiped, a bulk enquiry reads them, and any statement of a running
\* transaction may raise.  A catalog row may have an empty description cell.
CatalogUploads ==
    {<<[part_number |-> PartA, free_stock |-> MaxAvail, price |-> PriceOf(PartA),
        description |-> SomeDescription]>>,
     <<[part_number |-> PartA, free_stock |-> LowStock, price |-> PriceOf(PartA),
        description |-> SomeDescription],
       [part_number |-> PartB, free_stock |-> MaxAvail, price |-> PriceOf(PartB),
        description |-> NULL]>>}

CatalogRows == [part_number : {PartA, PartB}, qty : {SmallReq}]

NextCatalog ==
    \/ \E recs \in CatalogUploads, st \in Pools :
          nUploads < MaxCatalogUploads /\ UpDeactivate("w1", recs, st)
    \/ UpInsert("w1")
    \/ \E st \in Pools :
          /\ \E k \in 1..Len(parts_stock) : parts_stock[k].stock_type = st
          /\ RsDelete("w1", st)
    \/ Commit("w1")
    \/ Fail("w1")
    \/ \E row \in CatalogRows, st \in Pools :
          ProcessBulkEnquiry(<<row>>, st)

SpecCatalog == Init /\ [][NextCatalog]_vars

(* ============================ properties ============================== *)
ItemsOf(its, oid) == SelectSeq(its, LAMBDA it : it.order_id = oid)

\* Sum of the allocated quantities (qty) of the items of part pn.
RECURSIVE AllocatedFor(_, _)
AllocatedFor(its, pn) ==
    IF its = <<>> THEN 0
    ELSE (IF Head(its).part_number = pn THEN Head(its).qty ELSE 0)
         + AllocatedFor(Tail(its), pn)

\* Sum of the quantities a restoration credits to part pn: the qty of its items
\* that is above 0 (restore_stock_from_order skips the others).
RECURSIVE CreditFor(_, _)
CreditFor(its, pn) ==
    IF its = <<>> THEN 0
    ELSE (IF Head(its).part_number = pn /\ Head(its).qty > 0 THEN Head(its).qty ELSE 0)
         + CreditFor(Tail(its), pn)

RECURSIVE AllocatedValue(_)
AllocatedValue(its) ==
    IF its = <<>> THEN 0 ELSE Head(its).qty * Head(its).price + AllocatedValue(Tail(its))

OrderRow(os, oid) == CHOOSE o \in os : o.order_id = oid
HasOrder(os, oid) == \E o \in os : o.order_id = oid

\* The rows of parts_stock are those of `before`, with free_stock changed by
\* d(part_number) in pool stype and by nothing elsewhere.
StockChangedBy(before, stype, d(_)) ==
    /\ Len(parts_stock) = Len(before)
    /\ \A k \in 1..Len(parts_stock) :
          parts_stock[k] =
             [before[k] EXCEPT !.free_stock =
                 @ + (IF before[k].stock_type = stype THEN d(before[k].part_number) ELSE 0)]

Returned(op) == last.op = op /\ last.ok

\* The positions of the rows of part pn in pool stype in a parts_stock table.
RowsOf(stock, pn, stype) ==
    {k \in 1..Len(stock) : stock[k].part_number = pn /\ stock[k].stock_type = stype}

\* C1 (the claim as stated): whatever the interleaving of two create_order
\* calls on one part of one pool, the deductions serialize: no row's free_stock
\* is driven below 0, and the quantities allocated to a part by the committed
\* orders together do not exceed the quantity uploaded for it.
C1_DeductionsSerialize ==
    \A k \in 1..Len(parts_stock) :
        /\ parts_stock[k].free_stock >= 0
        /\ AllocatedFor(order_items, parts_stock[k].part_number) <= MaxAvail

\* C2 (the claim as stated): over any sequence of update_order_status and
\* delete_order calls, no order item's allocated quantity is credited back to
\* stock more than once.
C2_RestoredAtMostOnce ==
    \A id \in DOMAIN restore_count : restore_count[id] <= 1

\* C3: update_order_status(order_id, "Rejected") on an order that is already
\* Rejected (the second of two rejections in a row) leaves every row of
\* parts_stock unchanged.
C3_SecondRejectKeepsStock ==
    (/\ Returned("update_order_status")
     /\ last.status = "Rejected"
     /\ HasOrder(last.before.orders, last.order_id)
     /\ OrderRow(last.before.orders, last.order_id).order_status = "Rejected")
    => parts_stock = last.before.parts_stock

C3_Witness ==
    /\ Returned("update_order_status")
    /\ last.status = "Rejected"
    /\ HasOrder(last.before.orders, last.order_id)
    /\ OrderRow(last.before.orders, last.order_id).order_status = "Rejected"
    /\ \E k \in 1..Len(order_items) :
          /\ order_items[k].order_id = last.order_id
          /\ order_items[k].qty > 0
          /\ MatchingRows(order_items[k].part_number,
                          OrderRow(orders, last.order_id).stock_type) # {}

\* C4: when an order is created and the very next call rejects it, parts_stock
\* is what it was before create_order, row for row, also for an order with
\* several lines of one part.
C4_CreateRejectRoundTrip ==
    (/\ Returned("update_order_status")
     /\ last.status = "Rejected"
     /\ last.order_id # 0
     /\ prev.created = last.order_id)
    => parts_stock = prev.parts_stock

C4_Witness ==
    /\ Returned("update_order_status")
    /\ last.status = "Rejected"
    /\ prev.created = last.order_id
    /\ \E j, k \in 1..Len(order_items) :
          /\ j < k
          /\ order_items[j].order_id = last.order_id
          /\ order_items[k].order_id = last.order_id
          /\ order_items[j].part_number = order_items[k].part_number
          /\ order_items[j].qty > 0
          /\ order_items[k].qty > 0
    /\ parts_stock # last.before.parts_stock

\* C5: when create_order fails, whatever the statement that raised (after two
\* of three lines were allocated, for example), nothing of the call is in the
\* tables: parts_stock and cart are as before it, no order and no order item has
\* its order id, and the caller got False with a message.
C5_FailedCreateLeavesNoTrace ==
    (last.op = "create_order" /\ ~last.ok) =>
        /\ parts_stock = last.before.parts_stock
        /\ cart = last.before.cart
        /\ ~HasOrder(orders, last.order_id)
        /\ ItemsOf(order_items, last.order_id) = <<>>
        /\ orders = last.before.orders
        /\ order_items = last.before.order_items
        /\ last.msg # ""

C5_Witness ==
    /\ last.op = "create_order"
    /\ ~last.ok
    /\ Len(last.items) = 3
    /\ last.n_items = 2
    /\ last.deducted
    /\ \E c \in cart : c.user_id = last.user_id

\* C6: for requested_qty >= 0 and an existing record with free_stock >= 0, each
\* allocator (create_order, calculate_allocation of the bulk preview, the cart
\* preview) allocates min(requested, available): never more than requested,
\* never more than available.
C6_AllocationIsMin ==
    (/\ alloc_out.path # "none"
     /\ alloc_in.lookup.found
     /\ alloc_in.lookup.free_stock >= 0
     /\ alloc_in.requested_qty >= 0)
    => /\ alloc_out.allocated_qty = Min(alloc_in.requested_qty, alloc_in.lookup.free_stock)
       /\ alloc_out.allocated_qty <= alloc_in.requested_qty
       /\ alloc_out.allocated_qty <= alloc_in.lookup.free_stock

C6_Witness ==
    /\ alloc_out.path = "bulk"
    /\ alloc_in.lookup.found
    /\ alloc_in.lookup.free_stock > 0
    /\ alloc_in.lookup.free_stock < alloc_in.requested_qty
    /\ alloc_out.allocated_qty = alloc_in.lookup.free_stock

\* The boundary table of spec section 4.2.
BoundaryLabel(requested_qty, lookup) ==
    IF ~lookup.found THEN "Invalid Part"
    ELSE IF lookup.free_stock >= requested_qty THEN "Fully Allocated"
    ELSE IF lookup.free_stock > 0 THEN "Partial Fulfillment"
    ELSE "Out of Stock"

\* C7 (the claim as stated): for requested_qty >= 0 and available >= 0 the label
\* returned by the bulk preview and by the cart preview is the one of the
\* boundary table, "Invalid Part" for a missing record included.
C7_LabelMatchesTable ==
    (/\ alloc_out.path \in {"bulk", "cart"}
     /\ alloc_in.lookup.free_stock >= 0)
    => alloc_out.status = BoundaryLabel(alloc_in.requested_qty, alloc_in.lookup)

\* Sum of the qty of the rows of a bulk input whose cleaned part number is pn.
RECURSIVE RequestedFor(_, _)
RequestedFor(df, pn) ==
    IF df = <<>> THEN 0
    ELSE (IF CleanPartNumber(Head(df).part_number) = pn THEN Head(df).qty ELSE 0)
         + RequestedFor(Tail(df), pn)

\* C8 (the claim as stated): the review table of a bulk enquiry has exactly one
\* line per distinct part number of the input, whose qty is the sum of the
\* part's rows and whose allocation is decided once on that sum; rows asking 3
\* and 5 of a part with 6 available give one line with qty 8 and allocated 6.
C8_OneDecisionPerPart ==
    bulk_out # <<>> =>
        \A pn \in {CleanPartNumber(r.part_number) : r \in Range(bulk_out.df)} :
            LET lines == {k \in 1..Len(bulk_out.merged) :
                             bulk_out.merged[k].part_number = pn}
            IN  /\ Cardinality(lines) = 1
                /\ \A k \in lines :
                      LET m == bulk_out.merged[k]
                      IN  /\ m.qty = RequestedFor(bulk_out.df, pn)
                          /\ ~m.no_record =>
                                m.allocated_qty = Min(m.qty, m.available_qty)
                          /\ (m.qty = 8 /\ ~m.no_record /\ m.available_qty = 6)
                                => m.allocated_qty = 6

\* C9: after a successful create_order every row of the order's pool holds its
\* pre-order free_stock minus the quantity allocated to its part in the order,
\* the other pool is untouched, and total_price is the allocated value; with
\* A = 10 at price 5, an order for 15 records qty 10, total 50 and leaves A at 0.
C9_DeductionAndTotal ==
    Returned("create_order") =>
        LET its == ItemsOf(order_items, last.order_id)
            Deducted(pn) == 0 - AllocatedFor(its, pn)
        IN  /\ HasOrder(orders, last.order_id)
            /\ StockChangedBy(last.before.parts_stock, last.stock_type, Deducted)
            /\ OrderRow(orders, last.order_id).total_price = AllocatedValue(its)
            /\ (/\ last.items = <<[part_number |-> PartA, qty |-> 15, price |-> 5]>>
                /\ RowsOf(last.before.parts_stock, PartA, last.stock_type) # {}
                /\ \A k \in RowsOf(last.before.parts_stock, PartA, last.stock_type) :
                      last.before.parts_stock[k].free_stock = 10)
               => (/\ \A k \in RowsOf(parts_stock, PartA, last.stock_type) :
                         parts_stock[k].free_stock = 0
                   /\ its[1].qty = 10
                   /\ OrderRow(orders, last.order_id).total_price = 50)

C9_Witness ==
    /\ Returned("create_order")
    /\ last.items = <<[part_number |-> PartA, qty |-> 15, price |-> 5]>>
    /\ \E k \in 1..Len(parts_stock) :
          /\ parts_stock[k].part_number = PartA
          /\ parts_stock[k].stock_type = last.stock_type
          /\ last.before.parts_stock[k].free_stock = 10
          /\ parts_stock[k].free_stock = 0
    /\ ItemsOf(order_items, last.order_id)[1].qty = 10
    /\ OrderRow(orders, last.order_id).total_price = 50

\* C10: delete_order credits the allocated quantity of every line item to the
\* order's pool whatever the order's status, a Rejected order included (whose
\* quantities were credited at the rejection already: 10 becomes 20), and
\* removes the order and its items.
C10_DeleteAlwaysRestores ==
    (Returned("delete_order") /\ HasOrder(last.before.orders, last.order_id)) =>
        LET o == OrderRow(last.before.orders, last.order_id)
            its == ItemsOf(last.before.order_items, last.order_id)
            Credited(pn) == CreditFor(its, pn)
        IN  /\ StockChangedBy(last.before.parts_stock, o.stock_type, Credited)
            /\ ~HasOrder(orders, last.order_id)
            /\ ItemsOf(order_items, last.order_id) = <<>>

C10_Witness ==
    /\ Returned("delete_order")
    /\ HasOrder(last.before.orders, last.order_id)
    /\ OrderRow(last.before.orders, last.order_id).order_status = "Rejected"
    /\ \E it \in Range(last.before.order_items) :
          it.order_id = last.order_id /\ it.part_number = PartA /\ it.qty = 10
    /\ \E k \in 1..Len(parts_stock) :
          /\ parts_stock[k].part_number = PartA
          /\ last.before.parts_stock[k].free_stock = 10
          /\ parts_stock[k].free_stock = 20

\* The positions of the active rows of part pn in pool stype in a parts_stock table.
ActiveRowsOf(stock, pn, stype) ==
    {k \in RowsOf(stock, pn, stype) : stock[k].is_active}

\* C11: every order in the tables has total_price equal to the sum of
\* qty * price over its order items, and an update_order_status call leaves
\* every order's total_price as it was.
C11_TotalIsAllocatedValue ==
    /\ \A o \in orders :
          o.total_price = AllocatedValue(ItemsOf(order_items, o.order_id))
    /\ Returned("update_order_status") =>
          \A o \in orders :
              \E b \in last.before.orders :
                  b.order_id = o.order_id /\ b.total_price = o.total_price

C11_Witness ==
    /\ Returned("update_order_status")
    /\ \E o \in orders :
          /\ o.order_id = last.order_id
          /\ o.total_price > 0
          /\ Len(ItemsOf(order_items, o.order_id)) = 2
          /\ \E it \in Range(ItemsOf(order_items, o.order_id)) :
                it.qty > 0 /\ it.qty < it.requested_qty

\* C12 (the claim as stated): every order item in the tables has
\* 0 <= qty <= requested_qty and qty <= available_qty, whatever free_stock
\* create_order read for it.
C12_AllocationWithinBounds ==
    \A k \in 1..Len(order_items) :
        /\ 0 <= order_items[k].qty
        /\ order_items[k].qty <= order_items[k].requested_qty
        /\ order_items[k].qty <= order_items[k].available_qty

\* C13 (the claim as stated): with one call at a time (uploads of non-negative
\* quantities, orders, status changes, deletions), no row of parts_stock has a
\* negative free_stock.
C13_SequentialStockNonNegative ==
    \A k \in 1..Len(parts_stock) : 0 <= parts_stock[k].free_stock

\* C14 (the claim as stated): no two active rows of parts_stock have the same
\* part_number and stock_type, whatever lists were uploaded.
C14_OneActiveRowPerPart ==
    \A j, k \in 1..Len(parts_stock) :
        (/\ j # k
         /\ parts_stock[j].is_active
         /\ parts_stock[k].is_active
         /\ parts_stock[j].stock_type = parts_stock[k].stock_type)
        => parts_stock[j].part_number # parts_stock[k].part_number

\* C15 (the claim as stated): the first line of a create_order gets its
\* available_qty from an active row of its part in the order's pool (0, with
\* nothing allocated, when the part has no active row), never from a
\* deactivated row.
C15_ReadsActiveRecord ==
    Returned("create_order") =>
        LET it == ItemsOf(order_items, last.order_id)[1]
            before == last.before.parts_stock
            act == ActiveRowsOf(before, it.part_number, last.stock_type)
        IN  IF act = {}
            THEN it.available_qty = 0 /\ it.qty = 0
            ELSE \E k \in act : it.available_qty = before[k].free_stock

\* C16 (the claim as stated): update_order_status changes the status of a
\* Pending order only; an order that is Accepted or Rejected keeps its status.
C16_TerminalStatusIsFinal ==
    Returned("update_order_status") =>
        \A b \in last.before.orders :
            b.order_status \in {"Accepted", "Rejected"} =>
                \A o \in orders :
                    o.order_id = b.order_id => o.order_status = b.order_status

\* C18 (the claim as stated): in a create_order with two lines of one part,
\* line 1 reading stock S >= 0, line 1 is allocated min(r1, S) and line 2 is
\* allocated min(r2, S - min(r1, S)) with that remainder as its snapshot; the two
\* together allocate at most S.
C18_LaterLineSeesEarlierDeduction ==
    (/\ Returned("create_order")
     /\ Len(last.items) = 2
     /\ last.items[1].part_number = last.items[2].part_number
     /\ ItemsOf(order_items, last.order_id)[1].available_qty >= 0)
    => LET its == ItemsOf(order_items, last.order_id)
           S == its[1].available_qty
           first == Min(last.items[1].qty, S)
       IN  /\ its[1].qty = first
           /\ its[2].available_qty = S - first
           /\ its[2].qty = Min(last.items[2].qty, S - first)
           /\ its[1].qty + its[2].qty <= S

\* C20: a create_order whose lines allocate nothing still succeeds: every line
\* has its order item, in order, with the requested quantity; a line whose part
\* has no row, or only rows at 0, gets qty 0; parts_stock changes by the positive
\* allocations only, and total_price is the value of the allocated quantities
\* (0 when every line allocated 0).
C20_ZeroAllocationIsRecorded ==
    Returned("create_order") =>
        LET its == ItemsOf(order_items, last.order_id)
            before == last.before.parts_stock
            Deducted(pn) == 0 - CreditFor(its, pn)
        IN  /\ HasOrder(orders, last.order_id)
            /\ Len(its) = Len(last.items)
            /\ \A i \in 1..Len(its) :
                  /\ its[i].part_number = last.items[i].part_number
                  /\ its[i].requested_qty = last.items[i].qty
                  /\ (\A k \in RowsOf(before, its[i].part_number, last.stock_type) :
                         before[k].free_stock = 0)
                     => its[i].qty = 0
            /\ StockChangedBy(before, last.stock_type, Deducted)
            /\ (\A i \in 1..Len(its) : its[i].qty = 0)
               => (/\ parts_stock = before
                   /\ OrderRow(orders, last.order_id).total_price = 0)

C20_Witness ==
    /\ Returned("create_order")
    /\ LET its == ItemsOf(order_items, last.order_id)
       IN  /\ Len(its) = 2
           /\ its[1].qty = 0
           /\ its[1].requested_qty > 0
           /\ RowsOf(last.before.parts_stock, its[1].part_number, last.stock_type) # {}
           /\ its[2].qty > 0
           /\ OrderRow(orders, last.order_id).total_price = its[2].qty * its[2].price

\* C17 (the claim as stated): when update_order_status(order_id, "Rejected")
\* runs twice on one order, in any interleaving, the order's quantities are
\* credited once in total: no row ever holds more than was uploaded, and once
\* the order is Rejected and no call is running every row holds what was
\* uploaded.
C17_ConcurrentRejectsRestoreOnce ==
    /\ \A k \in 1..Len(parts_stock) : parts_stock[k].free_stock <= MaxAvail
    /\ (AllIdle /\ \E o \in orders : o.order_status = "Rejected")
       => \A k \in 1..Len(parts_stock) : parts_stock[k].free_stock = MaxAvail

\* C19: delete_all_orders(stock_type) removes the orders of the pool and their
\* items, delete_all_users_history removes every order and item, and both leave
\* every row of parts_stock as it was, whatever the status of the orders.
C19_BulkDeleteKeepsStock ==
    /\ last.op = "delete_all_orders" =>
          /\ parts_stock = last.before.parts_stock
          /\ orders = {o \in last.before.orders : o.stock_type # last.stock_type}
          /\ order_items =
                SelectSeq(last.before.order_items,
                          LAMBDA it : \A o \in last.before.orders :
                                         o.order_id = it.order_id
                                         => o.stock_type # last.stock_type)
    /\ last.op = "delete_all_users_history" =>
          /\ parts_stock = last.before.parts_stock
          /\ orders = {}
          /\ order_items = <<>>

C19_Witness ==
    /\ last.op = "delete_all_orders"
    /\ orders # {}
    /\ \E o \in last.before.orders :
          /\ o.stock_type = last.stock_type
          /\ o.order_status = "Accepted"
          /\ \E it \in Range(last.before.order_items) :
                it.order_id = o.order_id /\ it.qty > 0

\* C21: when a statement of update_order_status or delete_order fails, also
\* after the stock was restored (the status update or the header delete fails),
\* the whole transition is rolled back: parts_stock, the orders and the order
\* items are what they were before the call, and the caller gets (False, message).
C21_FailedTransitionRolledBack ==
    (last.op \in {"update_order_status", "delete_order"} /\ ~last.ok)
    => /\ parts_stock = last.before.parts_stock
       /\ orders = last.before.orders
       /\ order_items = last.before.order_items
       /\ ~last.raised
       /\ last.msg # ""

\* A status update or a header delete failed after the restoration was staged.
C21_Witness ==
    /\ last.op \in {"update_order_status", "delete_order"}
    /\ ~last.ok
    /\ last.step \in {"us_update", "do_header"}
    /\ last.deducted
    /\ parts_stock = last.before.parts_stock

\* C22: upload_parts_stock is all-or-nothing: when the insert of the new rows
\* fails after the pool's rows were deactivated, the rows that were active
\* before the call are still active and no new row is in the table.
C22_FailedUploadKeepsCatalog ==
    (last.op = "upload_parts_stock" /\ ~last.ok)
    => /\ parts_stock = last.before.parts_stock
       /\ ActiveStock(last.stock_type)
            = SelectSeq(last.before.parts_stock,
                        LAMBDA r : r.stock_type = last.stock_type /\ r.is_active)

\* The insert failed on a pool that had active rows.
C22_Witness ==
    /\ last.op = "upload_parts_stock"
    /\ ~last.ok
    /\ last.step = "up_insert"
    /\ ActiveStock(last.stock_type) # <<>>

\* C23: every mutating operation, upload_parts_stock and reset_stock included,
\* reports a storage failure to its caller as a result value: a success flag
\* (False) and a message, not an exception.
C23_FailureIsAResultValue ==
    ~last.ok => (~last.raised /\ last.msg # "")

\* C24: in every committed state every order item refers to an existing order:
\* after any sequence of create_order, delete_order, delete_all_orders and
\* delete_all_users_history calls, failed ones included, no item outlives its order.
C24_NoOrphanItem ==
    \A k \in 1..Len(order_items) : HasOrder(orders, order_items[k].order_id)

\* delete_order failed at its header DELETE, after the items' DELETE: the items
\* and their order are both still there.
C24_Witness ==
    /\ last.op = "delete_order"
    /\ ~last.ok
    /\ last.step = "do_header"
    /\ \E k \in 1..Len(order_items) : order_items[k].order_id = last.order_id
    /\ HasOrder(orders, last.order_id)

C26_SameRuleEverywhere ==
    alloc_out.path # "none" =>
        LET req == alloc_in.requested_qty
            lookup == alloc_in.lookup
            co == CreateOrderAllocation(req, CreateOrderCurrentStock(lookup))
            bulk == CalculateAllocation(BulkMergedRow(req, lookup))
            crt == CartAllocation(req, CartJoinAvailable(lookup))
        IN  /\ alloc_out.allocated_qty = co
            /\ alloc_out.allocated_qty = bulk.allocated_qty
            /\ alloc_out.allocated_qty = crt.allocated_qty
            /\ alloc_out.path \in {"bulk", "cart"} =>
                  /\ alloc_out.status = bulk.status
                  /\ alloc_out.status = crt.status
                  /\ ~lookup.found => alloc_out.status = "Invalid Part"

\* C27: update_order_status runs the restoration if and only if the new status
\* is Rejected and the current one is not, before the status update and inside
\* the same transaction; update_order_status(order_id, "Accepted") leaves every
\* stock row unchanged.
C27_RestoresIffNewlyRejected ==
    /\ (Returned("update_order_status") /\ HasOrder(last.before.orders, last.order_id)) =>
          LET o == OrderRow(last.before.orders, last.order_id)
              its == ItemsOf(last.before.order_items, last.order_id)
              Credited(pn) == CreditFor(its, pn)
          IN  /\ IF last.status = "Rejected" /\ o.order_status # "Rejected"
                 THEN StockChangedBy(last.before.parts_stock, o.stock_type, Credited)
                 ELSE parts_stock = last.before.parts_stock
              /\ OrderRow(orders, last.order_id).order_status = last.status
    /\ \A w \in Workers :
          tx[w].op = "update_order_status" =>
             /\ tx[w].pc \in {"rs_items", "rs_header", "rs_loop"} =>
                    (IsNull(tx[w].w_status) /\ tx[w].status = "Rejected")
             /\ tx[w].w_stock # <<>> => tx[w].status = "Rejected"

\* An order holding stock was accepted.
C27_Witness ==
    /\ Returned("update_order_status")
    /\ last.status = "Accepted"
    /\ HasOrder(last.before.orders, last.order_id)
    /\ OrderRow(last.before.orders, last.order_id).order_status # "Rejected"
    /\ \E k \in 1..Len(order_items) :
          order_items[k].order_id = last.order_id /\ order_items[k].qty > 0
    /\ parts_stock = last.before.parts_stock

\* C28: rejecting or deleting an order credits each part with the allocated
\* quantity (qty) of the order's lines, never with the requested quantity: a
\* partially allocated line makes free_stock grow by exactly its qty, and a
\* line with allocated quantity 0 changes no stock.
C28_CreditIsAllocatedQty ==
    (/\ last.ok
     /\ \/ last.op = "delete_order"
        \/ last.op = "update_order_status" /\ last.status = "Rejected"
     /\ HasOrder(last.before.orders, last.order_id)
     /\ last.op = "update_order_status" =>
           OrderRow(last.before.orders, last.order_id).order_status # "Rejected")
    => LET o == OrderRow(last.before.orders, last.order_id)
           its == ItemsOf(last.before.order_items, last.order_id)
           old == last.before.parts_stock
       IN  /\ Len(parts_stock) = Len(old)
           /\ \A k \in 1..Len(old) :
                 LET mine == SelectSeq(its, LAMBDA it :
                                 /\ it.part_number = old[k].part_number
                                 /\ o.stock_type = old[k].stock_type)
                     grown == parts_stock[k].free_stock - old[k].free_stock
                 IN  /\ grown = AllocatedFor(SelectSeq(mine, LAMBDA it : it.qty > 0),
                                             old[k].part_number)
                     /\ (\A j \in 1..Len(mine) : mine[j].qty = 0) => grown = 0

\* A partially allocated line was given back by a rejection: the row grew by
\* the allocated quantity, which is below the requested one.
C28_Witness ==
    /\ Returned("update_order_status")
    /\ last.status = "Rejected"
    /\ \E j \in 1..Len(order_items), k \in 1..Len(parts_stock) :
          /\ order_items[j].order_id = last.order_id
          /\ order_items[j].qty > 0
          /\ order_items[j].qty < order_items[j].requested_qty
          /\ parts_stock[k].part_number = order_items[j].part_number
          /\ Len(last.before.parts_stock) = Len(parts_stock)
          /\ parts_stock[k].free_stock
                = last.before.parts_stock[k].free_stock + order_items[j].qty

\* C29: in the bulk path a merged line is labelled "Invalid Part" (allocated
\* quantity 0, no_record true) if and only if its part number has no active
\* stock row in the pool of the enquiry: a part that has an active row there is
\* never reported as invalid.
C29_InvalidIffNoActiveRecord ==
    bulk_out # <<>> =>
        \A k \in 1..Len(bulk_out.merged) :
            LET r == bulk_out.merged[k]
                invalid == r.status = "Invalid Part"
                recorded == \E j \in 1..Len(bulk_out.stock) :
                               bulk_out.stock[j].part_number = r.part_number
            IN  /\ invalid <=> ~recorded
                /\ invalid <=> r.no_record
                /\ invalid => r.allocated_qty = 0

\* The value create_order has read for the line it is at is the free_stock of a
\* matching row as it was before the line's own deduction (0 without a row).
ReadBeforeDeduction(w) ==
    LET t == tx[w]
        pn == t.items[t.i].part_number
        own == IF t.pc = "co_insert" /\ t.allocated_qty > 0 THEN t.allocated_qty ELSE 0
    IN  IF MatchingRows(pn, t.stock_type) = {}
        THEN t.current_stock = 0
        ELSE \E k \in MatchingRows(pn, t.stock_type) :
                t.current_stock = FreeStockSeenBy(w, k) + own

\* Every item of the table is still in it, field by field, or is gone together
\* with its order.
ItemsFrozen ==
    \A k \in 1..Len(order_items) :
        LET it == order_items[k]
        IN  \/ \E j \in 1..Len(order_items') : order_items'[j] = it
            \/ /\ ~HasOrder(orders', it.order_id)
               /\ \A j \in 1..Len(order_items') : order_items'[j].id # it.id

C31_CartClearedOnlyOnSuccess ==
    /\ last.op = "create_order" =>
          /\ ~last.ok => cart = last.before.cart
          /\ last.ok => cart = {c \in last.before.cart : c.user_id # last.user_id}
    /\ \A w \in Workers :
          tx[w].op = "create_order" =>
             /\ tx[w].w_cart_del # {} => tx[w].pc = "commit"
             /\ \A c \in cart : c.id \in tx[w].w_cart_del => c.user_id = tx[w].user_id

\* An order went through: the rows of its user are gone, a row of another user
\* is still in the cart.
C31_Witness ==
    /\ last.op = "create_order"
    /\ last.ok
    /\ \E c \in last.before.cart : c.user_id = last.user_id
    /\ \E c \in cart : c.user_id # last.user_id

\* C32: when a user confirms an order from the cart with only some rows
\* selected, only the selected rows are ordered and removed from the cart:
\* every unselected cart row is still in the cart after the order succeeded.
C32_UnselectedRowsStay ==
    (last.op = "create_order" /\ last.ok /\ last.selected # {}) =>
        /\ \A c \in last.before.cart :
              c.id \notin last.selected => \E d \in cart : d.id = c.id
        /\ \A c \in cart : c.id \notin last.selected

\* C34: a create_order call with a malformed line (a qty that is not a number)
\* is rejected before any storage interaction: no order header is inserted,
\* not even inside a transaction that is later rolled back, no order id is
\* drawn, and no stock is read or written.
C34_MalformedRejectedBeforeStorage ==
    /\ \A w \in Workers :
          HasMalformed(tx[w].items) =>
             /\ IsNull(tx[w].w_header)
             /\ tx[w].pc \notin {"co_select", "co_update", "co_insert"}
    /\ (last.op = "create_order" /\ HasMalformed(last.items)) =>
          (~last.ok /\ last.step = "idle" /\ last.n_items = 0 /\ ~last.deducted)

\* C33: update_order_status and delete_order report success only when the
\* order exists: called with an order id that matches no order they change
\* nothing and return a failure result.
C33_UnknownOrderReported ==
    (/\ last.op \in {"update_order_status", "delete_order"}
     /\ ~HasOrder(last.before.orders, last.order_id)) =>
        /\ Store = last.before
        /\ ~last.ok

\* The quantity of part pn in pool stype that is allocated to the items of the
\* existing orders whose status is not Rejected.
RECURSIVE AllocatedToLiveOrders(_, _, _)
AllocatedToLiveOrders(its, pn, stype) ==
    IF its = <<>> THEN 0
    ELSE (IF /\ Head(its).part_number = pn
             /\ \E o \in orders : /\ o.order_id = Head(its).order_id
                                  /\ o.stock_type = stype
                                  /\ o.order_status # "Rejected"
          THEN Head(its).qty ELSE 0)
         + AllocatedToLiveOrders(Tail(its), pn, stype)

\* C35: with no upload, reset_stock or bulk deletion of orders in the run,
\* stock is conserved: for every stock row, its free_stock plus the quantity
\* allocated to the items of the existing non-Rejected orders of its part and
\* pool equals its initial (uploaded) free_stock, under any sequence of
\* create_order, update_order_status and delete_order.
C35_StockConserved ==
    \A recs \in TxUploads :
       \A k \in 1..Len(parts_stock) :
          parts_stock[k].free_stock
             + AllocatedToLiveOrders(order_items, parts_stock[k].part_number,
                                     parts_stock[k].stock_type)
          = recs[k].free_stock

\* The pool the last call worked on: the pool given to create_order,
\* upload_parts_stock and reset_stock, the pool of the order for
\* update_order_status and delete_order.
CallPool ==
    IF last.op \in {"update_order_status", "delete_order"}
    THEN OrderRow(last.before.orders, last.order_id).stock_type
    ELSE last.stock_type

RowsOutside(stock, stype) == SelectSeq(stock, LAMBDA r : r.stock_type # stype)

\* C36: pools are independent: create_order, update_order_status,
\* delete_order, upload_parts_stock and reset_stock on pool P never change,
\* deactivate or delete a stock row of another pool, even when the same part
\* number has rows in both pools.
C36_OtherPoolsUntouched ==
    (/\ last.op \in {"create_order", "update_order_status", "delete_order",
                     "upload_parts_stock", "reset_stock"}
     /\ last.op \in {"update_order_status", "delete_order"} =>
            HasOrder(last.before.orders, last.order_id)) =>
        RowsOutside(parts_stock, CallPool) = RowsOutside(last.before.parts_stock, CallPool)

C36_Witness ==
    /\ Returned("create_order")
    /\ last.deducted
    /\ \E k \in 1..Len(parts_stock) :
          /\ parts_stock[k].stock_type # last.stock_type
          /\ parts_stock[k].part_number = last.items[1].part_number
          /\ parts_stock[k].is_active
          /\ parts_stock[k].free_stock > 0

\* The items of order oid in an order_items table.
ItemsOfOrder(its, oid) == SelectSeq(its, LAMBDA i : i.order_id = oid)

\* The last call restored the stock of an order: a deletion, or a rejection
\* of an order that was not Rejected, and an allocated line of the order has
\* no stock row of its part in the order's pool.
RestoredWithoutRow ==
    /\ last.op \in {"update_order_status", "delete_order"}
    /\ HasOrder(last.before.orders, last.order_id)
    /\ last.op = "update_order_status" =>
          /\ last.status = "Rejected"
          /\ OrderRow(last.before.orders, last.order_id).order_status # "Rejected"
    /\ LET its == ItemsOfOrder(last.before.order_items, last.order_id)
       IN  \E k \in 1..Len(its) :
             /\ its[k].qty > 0
             /\ RowsOf(last.before.parts_stock, its[k].part_number, CallPool) = {}

\* C38: restoration never creates stock rows: when a line's part has no row
\* in the order's pool at the time the order is rejected or deleted (after
\* reset_stock, say), the call still succeeds, the line's quantity is
\* credited nowhere and the set of stock rows is unchanged; the rows of the
\* other parts of the order are credited as usual.
C38_NoRowNoCredit ==
    RestoredWithoutRow =>
        LET its == ItemsOfOrder(last.before.order_items, last.order_id)
            Credit(pn) == CreditFor(its, pn)
        IN  /\ last.ok
            /\ StockChangedBy(last.before.parts_stock, CallPool, Credit)
            /\ \A k \in 1..Len(its) :
                  RowsOf(last.before.parts_stock, its[k].part_number, CallPool) = {} =>
                     RowsOf(parts_stock, its[k].part_number, CallPool) = {}
            /\ last.op = "delete_order" => ~HasOrder(orders, last.order_id)
            /\ last.op = "update_order_status" =>
                  OrderRow(orders, last.order_id).order_status = "Rejected"

C38_Witness ==
    /\ RestoredWithoutRow
    /\ last.ok
    /\ RowsOutside(last.before.parts_stock, CallPool) = last.before.parts_stock

\* C37: deactivated stock rows are preserved: the deduction of create_order
\* and the restoration of update_order_status and delete_order change only
\* the active row of a (part, pool) and leave every deactivated row as it was.
C37_DeactivatedRowsPreserved ==
    last.op \in {"create_order", "update_order_status", "delete_order"} =>
        \A k \in 1..Len(last.before.parts_stock) :
           ~last.before.parts_stock[k].is_active =>
              parts_stock[k] = last.before.parts_stock[k]

====
